---- MODULE Spec2Model ----
(***************************************************************************)
(* Model of the zone master file lexer, src/src/lexer.rs.                  *)
(*                                                                         *)
(* A Lexer owns a peekable character iterator (zf), a line number, a       *)
(* character number and a State.  next_token() runs a loop: every          *)
(* iteration peeks at the next character and executes one arm of the       *)
(* `match self.state` / `match ch` of lexer.rs:166-262.  Each arm is one   *)
(* action below; NextToken is the entry of a call (lexer.rs:155-156).      *)
(* A panic (unimplemented!(), unwrap() on None) ends the run in            *)
(* pc = "aborted".                                                         *)
(***************************************************************************)
EXTENDS Integers, Sequences, FiniteSets, TLC

VARIABLES
    input,   \* the zonefile text given to Lexer::new, a sequence of characters
    pos,     \* number of characters consumed from zf
    lineno,  \* Lexer.lineno
    charno,  \* Lexer.charno
    state,   \* Lexer.state
    chars,   \* the local `chars: Option<String>` of the running next_token call
    pc,      \* "idle": between calls; "loop": inside next_token; "aborted": panicked
    out,     \* the values returned by the calls so far, in order
    ncalls   \* number of calls of next_token started

vars == <<input, pos, lineno, charno, state, chars, pc, out, ncalls>>

-----------------------------------------------------------------------------
(* Bounds *)

MaxLen == 4     \* raw inputs: every character sequence up to this length
MaxTail == 3    \* directive inputs: "$" name, then every tail up to this length
MaxCalls == 7   \* calls of next_token made on one Lexer

-----------------------------------------------------------------------------
(* Characters *)

CR == "\r"
LF == "\n"
TAB == "\t"
SP == " "

\* char::is_control, on the characters of the model
IsControl(c) == c \in {CR, LF, TAB}

\* char::is_whitespace, on the characters of the model
IsWhitespace(c) == c \in {SP, CR, LF, TAB}

Alphabet == {"$", ";", SP, TAB, LF, CR, "a"}

RECURSIVE SeqsUpTo(_, _)
SeqsUpTo(S, n) ==
    IF n = 0 THEN {<<>>}
    ELSE LET shorter == SeqsUpTo(S, n - 1)
         IN  shorter \cup {Append(s, c) : s \in {t \in shorter : Len(t) = n - 1}, c \in S}

-----------------------------------------------------------------------------
(* Directive names as compared in State::Dollar *)

INCLUDE == <<"I", "N", "C", "L", "U", "D", "E">>
ORIGIN == <<"O", "R", "I", "G", "I", "N">>
TTL == <<"T", "T", "L">>

\* the zonefiles of the tests of lexer.rs
CommentBody == <<SP, "t", "h", "i", "s", SP, "i", "s", SP, "a", SP,
                 "c", "o", "m", "m", "e", "n", "t">>
AnotherBody == <<SP, "t", "h", "i", "s", SP, "i", "s", SP, "a", "n", "o", "t", "h", "e", "r", SP,
                 "c", "o", "m", "m", "e", "n", "t">>
CidrNetwork == <<"c", "i", "d", "r", ".", "n", "e", "t", "w", "o", "r", "k", ".">>

TestCommentOnly == <<";">> \o CommentBody \o <<LF>>
TestMultipleComment == <<";">> \o CommentBody \o <<LF, ";">> \o AnotherBody
TestWhitespace == <<CR, LF, CR, LF>>
TestOriginOnly == <<"$">> \o ORIGIN \o <<SP>> \o CidrNetwork
TestOriginWithComment == <<"$">> \o ORIGIN \o <<SP>> \o CidrNetwork \o <<SP, ";">> \o CommentBody

\* the scenarios of the specification's testable properties
ExampleCom == <<"e", "x", "a", "m", "p", "l", "e", ".", "c", "o", "m", ".">>
ScenarioOrigin == <<"$">> \o ORIGIN \o <<SP>> \o ExampleCom \o <<LF>>
ScenarioTtl == <<"$">> \o TTL \o <<SP, "3", "6", "0", "0", LF>>
ScenarioParen == <<"a", SP, "(", SP, "b", LF, SP, SP, "c", SP, ")", LF>>


\* "$ORIGIN a\.b" and "$ORIGIN a\046b": the two spellings of an escaped dot
ScenarioEscapeDot == <<"$">> \o ORIGIN \o <<SP, "a", "\\", ".", "b", LF>>
ScenarioEscapeDecimal == <<"$">> \o ORIGIN \o <<SP, "a", "\\", "0", "4", "6", "b", LF>>

\* a $ORIGIN directive after blank and comment lines
LinesBefore == {<<LF>>, <<CR, LF>>, <<";", "a", CR, LF, LF>>}
LaterOrigins == {l \o <<"$">> \o ORIGIN \o <<SP, "a">> \o e : l \in LinesBefore, e \in {<<>>, <<LF>>}}

Scenarios ==
    {TestCommentOnly, TestMultipleComment, TestWhitespace, TestOriginOnly,
     TestOriginWithComment, ScenarioOrigin, ScenarioTtl, ScenarioParen,
     ScenarioEscapeDot, ScenarioEscapeDecimal}
    \cup LaterOrigins

DirectiveNames == {INCLUDE, ORIGIN, TTL, <<"o", "r", "i", "g", "i", "n">>}

Inputs ==
    SeqsUpTo(Alphabet, MaxLen)
    \cup {<<"$">> \o d \o t : d \in DirectiveNames, t \in SeqsUpTo(Alphabet, MaxTail)}
    \cup Scenarios

-----------------------------------------------------------------------------
(* Option<String> *)

None == [some |-> FALSE, str |-> <<>>]
Some(s) == [some |-> TRUE, str |-> s]

(* Token and error values returned by next_token *)

TokOrigin(name, line) == [kind |-> "Origin", domain_name |-> name, lineno |-> line]
TokTTL(n, line) == [kind |-> "TTL", ttl |-> n, lineno |-> line]
TokText(s) == [kind |-> "Text", text |-> s]
TokDomainName(s) == [kind |-> "DomainName", text |-> s]
TokBlank == [kind |-> "Blank"]
TokComment == [kind |-> "Comment"]
TokEOF == [kind |-> "EOF"]
Err(msg) == [kind |-> "Err", msg |-> msg]

-----------------------------------------------------------------------------
(* The cursor: self.zf.peek() and Lexer::next *)

HasCh == pos < Len(input)
Ch == input[pos + 1]

\* Lexer::next: consume one character
Advance == /\ pos' = (IF HasCh THEN pos + 1 ELSE pos)
           /\ charno' = charno + 1

\* `return v` from next_token
Return(v) == /\ out' = Append(out, v)
             /\ pc' = "idle"

\* a panic: unimplemented!() or unwrap() on None
Abort == /\ pc' = "aborted"
         /\ UNCHANGED <<pos, lineno, charno, state, chars, out>>

\* Lexer::push_to_str followed by self.next(): panics when chars is None
PushAndAdvance ==
    IF chars.some
    THEN /\ chars' = Some(Append(chars.str, Ch))
         /\ Advance
         /\ UNCHANGED <<lineno, state, pc, out>>
    ELSE Abort

-----------------------------------------------------------------------------
Init == /\ input \in Inputs
        /\ pos = 0
        /\ lineno = 0
        /\ charno = 0
        /\ state = "StartLine"
        /\ chars = None
        /\ pc = "idle"
        /\ out = <<>>
        /\ ncalls = 0

\* entry of next_token: `let mut chars = None`
NextToken ==
    /\ pc = "idle"
    /\ ncalls < MaxCalls
    /\ ncalls' = ncalls + 1
    /\ chars' = None
    /\ pc' = "loop"
    /\ UNCHANGED <<input, pos, lineno, charno, state, out>>

InLoop(s) == pc = "loop" /\ state = s

(* State::StartLine *)

StartLineNewline ==
    /\ InLoop("StartLine")
    /\ HasCh /\ Ch \in {CR, LF}
    /\ state' = "EOL"
    /\ UNCHANGED <<input, pos, lineno, charno, chars, pc, out, ncalls>>

\* as StartLineSemicolon, but without the move to State::Comment
StartLineSemicolonStays ==
    /\ InLoop("StartLine")
    /\ HasCh /\ Ch = ";"
    /\ Return(TokComment)
    /\ UNCHANGED <<input, pos, lineno, charno, state, chars, ncalls>>

StartLineSemicolon ==
    /\ InLoop("StartLine")
    /\ HasCh /\ Ch = ";"
    /\ state' = "Comment"
    /\ Return(TokComment)
    /\ UNCHANGED <<input, pos, lineno, charno, chars, ncalls>>

StartLineDollar ==
    /\ InLoop("StartLine")
    /\ HasCh /\ Ch = "$"
    /\ state' = "Dollar"
    /\ chars' = Some(<<>>)
    /\ Advance
    /\ UNCHANGED <<input, lineno, pc, out, ncalls>>

\* as StartLineNone, but moving to State::EOF when the input ends
StartLineNoneEntersEOF ==
    /\ InLoop("StartLine")
    /\ ~HasCh
    /\ state' = "EOF"
    /\ Return(TokEOF)
    /\ UNCHANGED <<input, pos, lineno, charno, chars, ncalls>>

StartLineNone ==
    /\ InLoop("StartLine")
    /\ ~HasCh
    /\ Return(TokEOF)
    /\ UNCHANGED <<input, pos, lineno, charno, state, chars, ncalls>>

StartLineOther ==
    /\ InLoop("StartLine")
    /\ HasCh /\ Ch \notin {CR, LF, ";", "$"}
    /\ Abort
    /\ UNCHANGED <<input, ncalls>>

(* State::Dollar *)

DollarControl ==
    /\ InLoop("Dollar")
    /\ HasCh /\ IsControl(Ch)
    /\ Return(Err("Unexpected control character found"))
    /\ UNCHANGED <<input, pos, lineno, charno, state, chars, ncalls>>

DollarPush ==
    /\ InLoop("Dollar")
    /\ HasCh /\ ~IsControl(Ch) /\ ~IsWhitespace(Ch)
    /\ PushAndAdvance
    /\ UNCHANGED <<input, ncalls>>

\* the guard of the third arm: a whitespace character that is not a control character
DollarAtWhitespace ==
    /\ InLoop("Dollar")
    /\ HasCh /\ ~IsControl(Ch) /\ IsWhitespace(Ch)

\* `chars.take().unwrap()` on None
DollarNoName ==
    /\ DollarAtWhitespace
    /\ ~chars.some
    /\ Abort
    /\ UNCHANGED <<input, ncalls>>

\* a recognised directive: restart the accumulator and consume the whitespace
DollarRestart ==
    /\ chars' = Some(<<>>)
    /\ Advance
    /\ UNCHANGED <<input, lineno, pc, out, ncalls>>

DollarInclude ==
    /\ DollarAtWhitespace
    /\ chars.some /\ chars.str = INCLUDE
    /\ state' = "IncludeFileName"
    /\ DollarRestart

\* as DollarOrigin, but comparing the name without regard to case
DollarOriginAnyCase ==
    /\ DollarAtWhitespace
    /\ chars.some /\ chars.str # INCLUDE
    /\ chars.str \in {ORIGIN, <<"o", "r", "i", "g", "i", "n">>}
    /\ state' = "Origin"
    /\ DollarRestart

DollarOrigin ==
    /\ DollarAtWhitespace
    /\ chars.some /\ chars.str # INCLUDE /\ chars.str = ORIGIN
    /\ state' = "Origin"
    /\ DollarRestart

DollarTtl ==
    /\ DollarAtWhitespace
    /\ chars.some /\ chars.str \notin {INCLUDE, ORIGIN} /\ chars.str = TTL
    /\ state' = "Ttl"
    /\ DollarRestart

DollarUnknown ==
    /\ DollarAtWhitespace
    /\ chars.some /\ chars.str \notin {INCLUDE, ORIGIN, TTL}
    /\ chars' = None
    /\ Return(Err("Unknown control entry"))
    /\ UNCHANGED <<input, pos, lineno, charno, state, ncalls>>

DollarEnd ==
    /\ InLoop("Dollar")
    /\ ~(HasCh /\ IsControl(Ch))
    /\ ~(HasCh /\ ~IsWhitespace(Ch))
    /\ ~(HasCh /\ IsWhitespace(Ch))
    /\ Return(Err("Unexpected end of line"))
    /\ UNCHANGED <<input, pos, lineno, charno, state, chars, ncalls>>

(* State::Origin *)

OriginPush ==
    /\ InLoop("Origin")
    /\ HasCh /\ ~IsControl(Ch) /\ ~IsWhitespace(Ch)
    /\ PushAndAdvance
    /\ UNCHANGED <<input, ncalls>>

OriginEnd ==
    /\ InLoop("Origin")
    /\ ~(HasCh /\ ~IsControl(Ch) /\ ~IsWhitespace(Ch))
    /\ state' = "RestOfLine"
    /\ chars' = None
    /\ Return(TokOrigin(chars.str, lineno))
    /\ UNCHANGED <<input, pos, lineno, charno, ncalls>>

(* State::Comment *)

\* as CommentStart, but without the self.next() that consumes the ";"
CommentStartKeepsSemicolon ==
    /\ InLoop("Comment")
    /\ state' = "RestOfLine"
    /\ chars' = Some(<<>>)
    /\ UNCHANGED <<input, pos, lineno, charno, pc, out, ncalls>>

CommentStart ==
    /\ InLoop("Comment")
    /\ state' = "RestOfLine"
    /\ chars' = Some(<<>>)
    /\ Advance
    /\ UNCHANGED <<input, lineno, pc, out, ncalls>>

(* State::RestOfLine *)

RestOfLineEnd ==
    /\ InLoop("RestOfLine")
    /\ (IF HasCh THEN Ch \in {CR, LF} ELSE TRUE)
    /\ state' = "EOL"
    /\ chars' = None
    /\ Return(TokText(chars.str))
    /\ UNCHANGED <<input, pos, lineno, charno, ncalls>>

\* as RestOfLineControl, but consuming the control character before the error is returned
RestOfLineControlSkips ==
    /\ InLoop("RestOfLine")
    /\ HasCh /\ Ch \notin {CR, LF} /\ IsControl(Ch)
    /\ Advance
    /\ Return(Err("Unexpected control character found"))
    /\ UNCHANGED <<input, lineno, state, chars, ncalls>>

RestOfLineControl ==
    /\ InLoop("RestOfLine")
    /\ HasCh /\ Ch \notin {CR, LF} /\ IsControl(Ch)
    /\ Return(Err("Unexpected control character found"))
    /\ UNCHANGED <<input, pos, lineno, charno, state, chars, ncalls>>

RestOfLinePush ==
    /\ InLoop("RestOfLine")
    /\ HasCh /\ Ch \notin {CR, LF} /\ ~IsControl(Ch)
    /\ PushAndAdvance
    /\ UNCHANGED <<input, ncalls>>

(* State::EOL *)

\* as EOLCr, but handing the carriage return back to StartLine instead of consuming it
EOLCrBackToStartLine ==
    /\ InLoop("EOL")
    /\ HasCh /\ Ch = CR
    /\ state' = "StartLine"
    /\ UNCHANGED <<input, pos, lineno, charno, chars, pc, out, ncalls>>

\* as EOLCr, but counting the carriage return as the end of a line
EOLCrCountsLine ==
    /\ InLoop("EOL")
    /\ HasCh /\ Ch = CR
    /\ lineno' = lineno + 1
    /\ Advance
    /\ UNCHANGED <<input, state, chars, pc, out, ncalls>>

EOLCr ==
    /\ InLoop("EOL")
    /\ HasCh /\ Ch = CR
    /\ Advance
    /\ UNCHANGED <<input, lineno, state, chars, pc, out, ncalls>>

\* as EOLLf, but without the reset of the state to StartLine
EOLLfStaysInEOL ==
    /\ InLoop("EOL")
    /\ HasCh /\ Ch = LF
    /\ lineno' = lineno + 1
    /\ pos' = pos + 1
    /\ charno' = 1
    /\ UNCHANGED <<input, state, chars, pc, out, ncalls>>

EOLLf ==
    /\ InLoop("EOL")
    /\ HasCh /\ Ch = LF
    /\ lineno' = lineno + 1
    /\ pos' = pos + 1
    /\ charno' = 1
    /\ state' = "StartLine"
    /\ UNCHANGED <<input, chars, pc, out, ncalls>>

EOLOther ==
    /\ InLoop("EOL")
    /\ ~(HasCh /\ Ch \in {CR, LF})
    /\ Return(TokEOF)
    /\ UNCHANGED <<input, pos, lineno, charno, state, chars, ncalls>>

(* every other State: `_ => unimplemented!()` *)

CatchAll ==
    /\ pc = "loop"
    /\ state \notin {"StartLine", "Dollar", "Origin", "Comment", "RestOfLine", "EOL"}
    /\ Abort
    /\ UNCHANGED <<input, ncalls>>

Next == \/ NextToken
        \/ StartLineNewline
        \/ StartLineSemicolon
        \/ StartLineDollar
        \/ StartLineNone
        \/ StartLineOther
        \/ DollarControl
        \/ DollarPush
        \/ DollarNoName
        \/ DollarInclude
        \/ DollarOrigin
        \/ DollarTtl
        \/ DollarUnknown
        \/ DollarEnd
        \/ OriginPush
        \/ OriginEnd
        \/ CommentStart
        \/ RestOfLineEnd
        \/ RestOfLineControl
        \/ RestOfLinePush
        \/ EOLCr
        \/ EOLLf
        \/ EOLOther
        \/ CatchAll

Spec == Init /\ [][Next]_vars

\* a running call executes its next loop iteration, and the consumer keeps
\* calling next_token (up to MaxCalls calls)
FairSpec == Spec /\ WF_vars(Next)

-----------------------------------------------------------------------------
(* Helpers for stating the properties *)

Last(s) == s[Len(s)]

Drop(s, n) == SubSeq(s, n + 1, Len(s))

HasPrefix(s, p) == Len(s) >= Len(p) /\ SubSeq(s, 1, Len(p)) = p

\* the first index >= i of s that holds a character of S, Len(s) + 1 when there is none
FirstIn(s, i, S) ==
    LET hits == {j \in i..Len(s) : s[j] \in S}
    IN  IF hits = {} THEN Len(s) + 1 ELSE CHOOSE j \in hits : \A k \in hits : j <= k

\* the first index >= i of s that holds a character outside S, Len(s) + 1 when there is none
FirstNotIn(s, i, S) ==
    LET hits == {j \in i..Len(s) : s[j] \notin S}
    IN  IF hits = {} THEN Len(s) + 1 ELSE CHOOSE j \in hits : \A k \in hits : j <= k

Controls == {CR, LF, TAB}
Blanks == {SP, TAB}

Aborted == pc = "aborted"

\* the i-th call has ended, by a return or by a panic
Ended(i) == Len(out) >= i \/ Aborted

EOFReturned == \E i \in 1..Len(out) : out[i] = TokEOF

ErrReturned == \E i \in 1..Len(out) : out[i].kind = "Err"

-----------------------------------------------------------------------------
\* C1: every call of next_token returns a token or a lexical error; no call
\* aborts, whatever the input and the number of preceding calls.
C1_NeverAborts == ~Aborted

-----------------------------------------------------------------------------
\* C2: EOF is terminal.  Once a call has returned EOF, every later call
\* returns EOF as well (it neither fails nor aborts nor returns another
\* token), and state, lineno and the input position no longer change.
C2_EOFTerminal ==
    [][EOFReturned =>
        /\ state' = state /\ lineno' = lineno /\ pos' = pos
        /\ (pc = "idle" => pc' = "loop" /\ out' = out)
        /\ (pc = "loop" => pc' = "idle" /\ out' = Append(out, TokEOF))]_vars

\* after a comment line EOF was returned, and the next call returned EOF again
C2_Witness ==
    /\ pc = "idle" /\ Len(out) >= 3
    /\ Last(out) = TokEOF /\ out[Len(out) - 1] = TokEOF
    /\ out[1] = TokComment

-----------------------------------------------------------------------------
\* s is a sequence of lines that each start with ";", have no control
\* character in their body and end with LF, CRLF or the end of s
RECURSIVE IsCommentLines(_)
IsCommentLines(s) ==
    IF s = <<>> THEN TRUE
    ELSE LET e == FirstIn(s, 1, Controls)
         IN  /\ s[1] = ";"
             /\ \/ e > Len(s)
                \/ s[e] = LF /\ IsCommentLines(Drop(s, e))
                \/ s[e] = CR /\ e < Len(s) /\ s[e + 1] = LF /\ IsCommentLines(Drop(s, e + 1))

\* the tokens the comment lines of s stand for: Comment, Text(body) per line
RECURSIVE CommentTokens(_)
CommentTokens(s) ==
    IF s = <<>> THEN <<>>
    ELSE LET e == FirstIn(s, 1, Controls)
             rest == IF e > Len(s) THEN <<>>
                     ELSE IF s[e] = LF THEN Drop(s, e) ELSE Drop(s, e + 1)
         IN  <<TokComment, TokText(SubSeq(s, 2, e - 1))>> \o CommentTokens(rest)

IsCommentInput == input # <<>> /\ IsCommentLines(input)

\* C3: for an input made of comment lines, the calls return Comment and
\* Text(body) for each line in order, body being the characters between the
\* ";" and the line terminator (LF, CRLF) or the end of input, and EOF from
\* then on; no call fails.
C3_CommentLines ==
    IsCommentInput =>
        /\ ~Aborted
        /\ LET expected == CommentTokens(input)
           IN  \A i \in 1..Len(out) :
                   out[i] = (IF i <= Len(expected) THEN expected[i] ELSE TokEOF)

\* two comment lines, the first ended by CRLF or LF, were lexed up to EOF
C3_Witness ==
    /\ IsCommentInput
    /\ Len(CommentTokens(input)) >= 4
    /\ out = CommentTokens(input) \o <<TokEOF>>

-----------------------------------------------------------------------------
NotInName == {SP, TAB, CR, LF}

DollarOriginSp == <<"$">> \o ORIGIN \o <<SP>>

\* the end (exclusive) of the name that follows "$ORIGIN "
OriginNameEnd(s) == FirstIn(s, Len(DollarOriginSp) + 1, NotInName)

OriginName(s) == SubSeq(s, Len(DollarOriginSp) + 1, OriginNameEnd(s) - 1)

\* "$ORIGIN <name>" followed by a line feed or by the end of input
IsOriginInput(s) ==
    /\ HasPrefix(s, DollarOriginSp)
    /\ OriginName(s) # <<>>
    /\ Drop(s, OriginNameEnd(s) - 1) \in {<<>>, <<LF>>}

\* C4: for "$ORIGIN <name>" followed by LF or the end of input, the first
\* call returns Origin{<name>, 0} and the second call returns EOF.
C4_OriginThenEOF ==
    (IsOriginInput(input) /\ Ended(2)) =>
        /\ ~Aborted
        /\ out[1] = TokOrigin(OriginName(input), 0)
        /\ out[2] = TokEOF

\* "$ORIGIN <name>", then spaces or tabs, then a ";" comment
IsOriginCommentInput(s) ==
    /\ HasPrefix(s, DollarOriginSp)
    /\ OriginName(s) # <<>>
    /\ LET e == OriginNameEnd(s)
           c == FirstNotIn(s, e, Blanks)
       IN  e <= Len(s) /\ c > e /\ c <= Len(s) /\ s[c] = ";"

\* C5: when the name of $ORIGIN is followed on its line by whitespace and a
\* ";" comment, the first call returns Origin{name, lineno} and the second
\* call returns Comment.
C5_OriginThenComment ==
    (IsOriginCommentInput(input) /\ Ended(2)) =>
        /\ ~Aborted
        /\ out[1] = TokOrigin(OriginName(input), 0)
        /\ out[2] = TokComment

-----------------------------------------------------------------------------
Digits == {"0", "1", "2", "3", "4", "5", "6", "7", "8", "9"}

DigitValue(d) ==
    CASE d = "0" -> 0 [] d = "1" -> 1 [] d = "2" -> 2 [] d = "3" -> 3 [] d = "4" -> 4
      [] d = "5" -> 5 [] d = "6" -> 6 [] d = "7" -> 7 [] d = "8" -> 8 [] d = "9" -> 9

RECURSIVE DecimalValue(_)
DecimalValue(s) ==
    IF s = <<>> THEN 0 ELSE 10 * DecimalValue(SubSeq(s, 1, Len(s) - 1)) + DigitValue(Last(s))

DollarTtlSp == <<"$">> \o TTL \o <<SP>>

TtlDigits(s) == SubSeq(s, Len(DollarTtlSp) + 1, Len(s) - 1)

\* "$TTL <digits>" followed by a line feed
IsTtlInput(s) ==
    /\ HasPrefix(s, DollarTtlSp)
    /\ Len(s) >= Len(DollarTtlSp) + 2
    /\ Last(s) = LF
    /\ \A i \in 1..Len(TtlDigits(s)) : TtlDigits(s)[i] \in Digits

\* C6: for "$TTL <digits>" followed by a line feed, the first call returns
\* TTL{ttl: value of <digits>, lineno: 0}.
C6_TtlToken ==
    (IsTtlInput(input) /\ Ended(1)) =>
        /\ ~Aborted
        /\ out[1] = TokTTL(DecimalValue(TtlDigits(input)), 0)

-----------------------------------------------------------------------------
\* s consists of empty lines, each ended by LF or CRLF
RECURSIVE IsBlankLines(_)
IsBlankLines(s) ==
    IF s = <<>> THEN TRUE
    ELSE \/ s[1] = LF /\ IsBlankLines(Drop(s, 1))
         \/ Len(s) >= 2 /\ s[1] = CR /\ s[2] = LF /\ IsBlankLines(Drop(s, 2))

CountOf(s, c) == Cardinality({i \in 1..Len(s) : s[i] = c})

\* the unread input starts with the terminator of an empty line
AtLF == HasCh /\ Ch = LF
AtCRLF == HasCh /\ Ch = CR /\ pos + 2 <= Len(input) /\ input[pos + 2] = LF

\* C7: blank lines are ignorable.  An empty line ended by LF or CRLF at the
\* start of a line is consumed without a token being returned and leaves the
\* lexer in StartLine; for an input of nothing but LF and CRLF terminators the
\* first call returns EOF, with all of the input consumed.
C7_BlankLines ==
    /\ [](input # <<>> /\ IsBlankLines(input) =>
            /\ ~Aborted
            /\ Len(out) >= 1 =>
                 /\ out[1] = TokEOF
                 /\ pos = Len(input)
                 /\ state = "StartLine"
                 /\ lineno = CountOf(input, LF))
    /\ [][/\ (InLoop("StartLine") /\ (AtLF \/ AtCRLF)) =>
                 (state' = "EOL" /\ pos' = pos /\ lineno' = lineno /\ out' = out /\ pc' = "loop")
          /\ (InLoop("EOL") /\ AtCRLF) =>
                 (state' = "EOL" /\ pos' = pos + 1 /\ lineno' = lineno /\ out' = out /\ pc' = "loop")
          /\ (InLoop("EOL") /\ AtLF) =>
                 (state' = "StartLine" /\ pos' = pos + 1 /\ lineno' = lineno + 1
                  /\ out' = out /\ pc' = "loop")]_vars

\* "\r\n\r\n" of tests::whitespace was lexed: EOF at the first call
C7_Witness ==
    /\ input = TestWhitespace
    /\ out = <<TokEOF>>
    /\ pos = Len(input) /\ state = "StartLine" /\ lineno = 2

-----------------------------------------------------------------------------
\* C8: tokenizing does not continue past an error.  Once a call has returned
\* a lexical error, no later call returns a token and no further input is
\* consumed.
C8_StopsAtError ==
    [][ErrReturned =>
        /\ pos' = pos
        /\ (out' # out => Last(out').kind = "Err")]_vars

\* an error was returned and a later call has ended (with the error again)
C8_Witness ==
    /\ Len(out) >= 3
    /\ out[Len(out) - 1].kind = "Err"
    /\ Last(out).kind = "Err"
    /\ pos < Len(input)

-----------------------------------------------------------------------------
\* no directive, quote, parenthesis or escape anywhere in s
IsPlainInput(s) == \A i \in 1..Len(s) : s[i] \notin {"$", "\"", "(", ")", "\\"}

\* the first run of characters of s up to whitespace, a comment or the end
FirstRun(s) == SubSeq(s, 1, FirstIn(s, 1, {SP, TAB, CR, LF, ";"}) - 1)

\* C9: in an input without directives, quotes or parentheses, a line that
\* starts with a non-whitespace, non-control character other than ";" and
\* "$" yields one DomainName token for its first run of characters, and a
\* line that starts with a space or tab yields one Blank token.
C9_DomainNameOrBlank ==
    (/\ input # <<>>
     /\ IsPlainInput(input)
     /\ input[1] \notin {";", CR, LF}
     /\ Ended(1)) =>
        /\ ~Aborted
        /\ out[1] = (IF input[1] \in Blanks THEN TokBlank
                     ELSE TokDomainName(FirstRun(input)))

-----------------------------------------------------------------------------
\* the parenthesis depth after the first n characters of s
ParenDepth(s, n) ==
    Cardinality({i \in 1..n : s[i] = "("}) - Cardinality({i \in 1..n : s[i] = ")"})

\* a call has returned t, and a later call has returned u
ReturnedInOrder(t, u) == \E i, j \in 1..Len(out) : i < j /\ out[i] = t /\ out[j] = u

\* C10: while the parenthesis depth is greater than 0 a line terminator does
\* not end the entry: consuming a line feed at depth > 0 does not put the
\* lexer into StartLine, and for the input "a ( b\n  c )\n" the fields b and
\* c are returned as separate tokens.
C10_ParenContinuation ==
    /\ (pos > 0 /\ input[pos] = LF /\ ParenDepth(input, pos) > 0) => state # "StartLine"
    /\ (input = ScenarioParen /\ ncalls >= 1 /\ pc # "loop" /\ (Aborted \/ EOFReturned)) =>
           /\ ~Aborted
           /\ ReturnedInOrder(TokText(<<"b">>), TokText(<<"c">>))

-----------------------------------------------------------------------------
\* the end (exclusive) of the directive name that follows a leading "$"
DirNameEnd(s) == FirstIn(s, 2, {SP, TAB, CR, LF})

DirName(s) == SubSeq(s, 2, DirNameEnd(s) - 1)

\* "$<name>" ended by a space
IsDirectiveSpInput(s) ==
    /\ s # <<>> /\ s[1] = "$"
    /\ DirNameEnd(s) <= Len(s) /\ s[DirNameEnd(s)] = SP

DirectiveState(name) ==
    CASE name = ORIGIN -> "Origin"
      [] name = INCLUDE -> "IncludeFileName"
      [] name = TTL -> "Ttl"
      [] OTHER -> "Dollar"

\* C11: a directive name ended by a space is recognised only if it is
\* exactly "ORIGIN", "INCLUDE" or "TTL", and then the lexer moves to the
\* Origin, IncludeFileName or Ttl state; for every other name, the empty
\* name and lower-case spellings included, the call returns the error
\* "Unknown control entry" with the space left unread.
C11_DirectiveNames ==
    IsDirectiveSpInput(input) =>
        LET name == DirName(input)
            e == DirNameEnd(input)
        IN  /\ (ncalls = 1 /\ pc = "loop" /\ pos >= e) =>
                   (name \in {ORIGIN, INCLUDE, TTL} /\ state = DirectiveState(name))
            /\ (ncalls = 1 /\ pc = "loop" /\ pos < e) => state \in {"StartLine", "Dollar"}
            /\ (name \notin {ORIGIN, INCLUDE, TTL} /\ Ended(1)) =>
                   (~Aborted \/ Len(out) >= 1)
                   /\ out[1] = Err("Unknown control entry")
                   /\ pos = e - 1
                   /\ state = "Dollar"

\* "$origin " was rejected, and so was the empty name of "$ "
C11_Witness ==
    /\ IsDirectiveSpInput(input)
    /\ DirName(input) \in {<<>>, <<"o", "r", "i", "g", "i", "n">>}
    /\ out = <<Err("Unknown control entry")>>

-----------------------------------------------------------------------------
\* "$<name>" ended by CR, LF or the end of input, with no whitespace before
IsDirectiveEolInput(s) ==
    /\ s # <<>> /\ s[1] = "$"
    /\ (DirNameEnd(s) <= Len(s) => s[DirNameEnd(s)] \in {CR, LF})

\* C12: a directive name ended by CR, LF or the end of input before any
\* separating whitespace makes the call return the error "Unexpected end of
\* line", and no other error.
C12_UnexpectedEndOfLine ==
    (IsDirectiveEolInput(input) /\ Ended(1)) =>
        /\ ~Aborted
        /\ out[1] = Err("Unexpected end of line")

-----------------------------------------------------------------------------
\* one comment line ";<body>" whose body holds a tab and no other control
\* character, ended by LF or the end of input
IsTabCommentInput(s) ==
    /\ s # <<>> /\ s[1] = ";"
    /\ \E i \in 2..Len(s) : s[i] = TAB
    /\ FirstIn(s, 2, {CR, LF}) >= Len(s)

TabCommentBody(s) == SubSeq(s, 2, FirstIn(s, 2, {CR, LF}) - 1)

\* C13: a control character other than CR and LF (a tab) inside a comment
\* body is accepted verbatim: the call after Comment returns Text with the
\* body, the tab included, and no error.
C13_ControlInComment ==
    (IsTabCommentInput(input) /\ Ended(2)) =>
        /\ ~Aborted
        /\ out[1] = TokComment
        /\ out[2] = TokText(TabCommentBody(input))

-----------------------------------------------------------------------------
\* the loop is at an arm that appends to the accumulator (push_to_str)
AtPush ==
    /\ pc = "loop" /\ HasCh
    /\ \/ state \in {"Dollar", "Origin"} /\ ~IsControl(Ch) /\ ~IsWhitespace(Ch)
       \/ state = "RestOfLine" /\ ~IsControl(Ch)

\* the loop is at the arm that takes the accumulated directive name
AtTake == pc = "loop" /\ state = "Dollar" /\ HasCh /\ ~IsControl(Ch) /\ IsWhitespace(Ch)

\* C14: whenever next_token is about to append a character to the
\* accumulator or to take the accumulated directive name, the accumulator is
\* present (Some), across any sequence of calls.
C14_AccumulatorPresent == (AtPush \/ AtTake) => chars.some

-----------------------------------------------------------------------------
\* the number of line feeds among the characters consumed so far
LineFeedsConsumed == CountOf(SubSeq(input, 1, pos), LF)

\* C15: lineno is 0 at creation and always equals the number of line feeds
\* consumed so far; consuming a carriage return or any other character does
\* not change it, and the lineno of a returned Origin token is the number of
\* line feeds that precede the directive in the input.
C15_LineNumber ==
    /\ [](lineno = LineFeedsConsumed)
    /\ [][/\ (pos' # pos /\ Ch # LF) => lineno' = lineno
          /\ (out' # out /\ Last(out').kind = "Origin") =>
                 Last(out').lineno = LineFeedsConsumed]_vars

\* "$ORIGIN a" on the third line, after a CRLF and an LF: Origin carries lineno 2
C15_Witness ==
    /\ Len(out) >= 3
    /\ out[3] = TokOrigin(<<"a">>, 2)
    /\ CountOf(input, CR) = 1

-----------------------------------------------------------------------------
\* C16: EOF is returned only when the input is exhausted; a lone CR is
\* absorbed without ending the tokenizing, and the Some(_) arm of State::EOL
\* is never taken with characters still unread.
C16_EOFOnlyAtEnd ==
    /\ EOFReturned => pos = Len(input)
    /\ InLoop("EOL") => (~HasCh \/ Ch \in {CR, LF})

-----------------------------------------------------------------------------
\* C17: escapes are honoured in the argument of $ORIGIN: backslash-dot and
\* backslash 0 4 6 both contribute the single character "." to the name, so
\* "$ORIGIN a\.b" and "$ORIGIN a\046b" give the same Origin token.
C17_OriginEscapes ==
    (input \in {ScenarioEscapeDot, ScenarioEscapeDecimal} /\ Ended(1)) =>
        /\ ~Aborted
        /\ out[1] = TokOrigin(<<"a", ".", "b">>, 0)

-----------------------------------------------------------------------------
DollarOriginWord == <<"$">> \o ORIGIN

\* the first character of the argument: the end of the run of spaces and tabs after "$ORIGIN"
OriginArgStart(s) == FirstNotIn(s, Len(DollarOriginWord) + 1, Blanks)

OriginArgEnd(s) == FirstIn(s, OriginArgStart(s), NotInName)

OriginArg(s) == SubSeq(s, OriginArgStart(s), OriginArgEnd(s) - 1)

\* "$ORIGIN", one or more spaces and tabs, a name, then LF or the end of input
IsOriginBlanksInput(s) ==
    /\ HasPrefix(s, DollarOriginWord)
    /\ OriginArgStart(s) > Len(DollarOriginWord) + 1
    /\ OriginArg(s) # <<>>
    /\ Drop(s, OriginArgEnd(s) - 1) \in {<<>>, <<LF>>}

\* C18: any non-empty run of spaces and tabs separates "$ORIGIN" from its
\* argument: the first call returns Origin with that name, never the empty
\* name and never an error.
C18_BlanksDelimit ==
    (IsOriginBlanksInput(input) /\ Ended(1)) =>
        /\ ~Aborted
        /\ out[1] = TokOrigin(OriginArg(input), 0)

-----------------------------------------------------------------------------
\* C19: the call right after one that returned Comment never returns a
\* token other than Text (not Comment, Origin or EOF), and it does not abort.
C19_TextAfterComment ==
    /\ \A i \in 1..(Len(out) - 1) : out[i] = TokComment => out[i + 1].kind \in {"Text", "Err"}
    /\ (out # <<>> /\ Last(out) = TokComment) => ~Aborted

\* two comment lines: each Comment was followed by the Text of its body
C19_Witness ==
    /\ Len(out) >= 4
    /\ out[1] = TokComment /\ out[2] = TokText(<<"a">>)
    /\ out[3] = TokComment /\ out[4].kind = "Text"

-----------------------------------------------------------------------------
\* what a call still has ahead of it: two per unread character, and one more
\* in StartLine, whose CR/LF arm hands over to EOL without consuming
Measure == 2 * (Len(input) - pos) + (IF state = "StartLine" THEN 1 ELSE 0)

Finished == Aborted \/ EOFReturned \/ ErrReturned

\* C20: every call of next_token terminates.  A loop iteration that does not
\* return or abort consumes a character or moves from StartLine to a state
\* that consumes or returns next, so the measure decreases; every call ends,
\* and repeated calls reach EOF, an error or an abort.
C20_Terminates ==
    /\ [][(pc = "loop" /\ pc' = "loop") => Measure' < Measure]_vars
    /\ (pc = "loop" ~> pc # "loop")
    /\ <>Finished

\* a call that iterated over a blank line and a comment line, and the run reached EOF
C20_Witness ==
    /\ EOFReturned
    /\ out[1] = TokComment
    /\ input[1] \in {CR, LF}
    /\ pos = Len(input)
====
